---- MODULE Spec2Model ----
(***************************************************************************)
(* Exotel analytics pipeline: phone normalisation, tenant classification   *)
(* against the live and historical stores through a connection pool,       *)
(* cursor-paginated record fetch, and aggregation.                         *)
(*                                                                         *)
(* Strings are sequences of one-character strings.  Python's None is the   *)
(* value None below, which is no character sequence.                       *)
(***************************************************************************)
EXTENDS Integers, Sequences, FiniteSets, TLC

(***************************************************************************)
(* Bounds of the model.                                                    *)
(***************************************************************************)
\* longest run of filler digits appended to a normalisation input
MaxFill == 10
\* longest list of phones handed to batch_lookup
MaxBatch == 2
\* most records the telephony server holds for a date range
MaxTotal == 5
\* largest page size the telephony server serves
MaxPage == 2
\* longest record list handed to process_analytics
MaxCalls == 2

(***************************************************************************)
(* Program constants.                                                      *)
(***************************************************************************)
\* SimpleConnectionPool(maxconn=10)
maxconn == 10

None == <<"None">>

Digits == {"0", "1", "2", "3", "4", "5", "6", "7", "8", "9"}

\* str.isdigit on one character
isdigit(c) == c \in Digits

\* ''.join(filter(str.isdigit, s))
DigitsOf(s) == SelectSeq(s, isdigit)

\* s.startswith(p)
startswith(s, p) == Len(s) >= Len(p) /\ SubSeq(s, 1, Len(p)) = p

\* s[-n:]
LastN(s, n) == IF Len(s) <= n THEN s ELSE SubSeq(s, Len(s) - n + 1, Len(s))

\* Python truthiness of a str-or-None value
Truthy(s) == s /= None /\ s /= <<>>

\* sub in s
Contains(s, sub) ==
    \E i \in 0..(Len(s) - Len(sub)) : SubSeq(s, i + 1, i + Len(sub)) = sub

\* c repeated n times
Rep(c, n) == [i \in 1..n |-> c]

(***************************************************************************)
(* TenantLookup.normalize_phone                                            *)
(***************************************************************************)
\* the leading-zero rule without its length test
StripLeadingZeroAnyLen(d) == IF startswith(d, <<"0">>) THEN Tail(d) ELSE d

\* lines 75-76
StripLeadingZero(d) ==
    IF startswith(d, <<"0">>) /\ Len(d) = 11 THEN Tail(d) ELSE d

\* the country-code rule keeping the last ten digits of a longer number
CountryCodeLastTen(d) ==
    IF Len(d) = 10 THEN <<"9", "1">> \o d
    ELSE IF Len(d) = 12 /\ startswith(d, <<"9", "1">>) THEN d
    ELSE IF Len(d) > 12 THEN <<"9", "1">> \o LastN(d, 10)
    ELSE d

\* lines 78-86
CountryCode(d) ==
    IF Len(d) = 10 THEN <<"9", "1">> \o d
    ELSE IF Len(d) = 12 /\ startswith(d, <<"9", "1">>) THEN d
    ELSE IF Len(d) > 12 THEN LastN(d, 12)
    ELSE d

normalize_phone(phone) ==
    IF ~Truthy(phone) THEN None
    ELSE CountryCode(StripLeadingZero(DigitsOf(phone)))

(***************************************************************************)
(* State.                                                                  *)
(***************************************************************************)
VARIABLES
    np_in,      \* the raw string handed to normalize_phone
    np_out,     \* the results of the successive applications so far
    live_rows,  \* flat_booking_orders: the tenant_phone_number values
    hist_rows,  \* all_tenants_data_upto_2025_09_09: [phone, mobile] rows
    pool_ok,    \* TenantLookup.connection_pool is a pool (FALSE: None)
    borrowed,   \* connections taken from the pool and not put back
    last,       \* the call that has just ended: its inputs and what it returned
    srv_total,  \* records the telephony server holds for the date range
    srv_page,   \* records the telephony server puts on one page
    f_pc,       \* fetch_calls: "idle", "request" (top of the while loop), "done"
    all_calls,  \* fetch_calls: all_calls
    f_url,      \* fetch_calls: url
    f_params,   \* fetch_calls: params is the filter dict (FALSE: {})
    req_log,    \* the requests.get calls issued, in order
    resp_log,   \* what each of them came back with
    fetch_ret,  \* what fetch_calls returned, once f_pc = "done"
    entry,      \* the request an entry point is serving and its response
    jobs,       \* the jobs of the BackgroundScheduler: [id, hour, minute]
    config,     \* the global config dict: its 'report_time' entry
    _tenant_lookup, \* the module global of tenant_lookup.py (0: None)
    instances,  \* how many TenantLookup objects have been constructed
    thread      \* where each thread stands inside get_tenant_lookup

normVars == <<np_in, np_out>>

storeVars == <<live_rows, hist_rows, pool_ok>>

fetchVars ==
    <<srv_total, srv_page, f_pc, all_calls, f_url, f_params, req_log, resp_log,
      fetch_ret>>

entryVars == <<entry>>

schedVars == <<jobs, config>>

singletonVars == <<_tenant_lookup, instances, thread>>

appVars == <<schedVars, singletonVars>>

vars == <<normVars, storeVars, borrowed, last, fetchVars, entryVars, appVars>>

(***************************************************************************)
(* Normalisation on its own: inputs are a head of up to four characters    *)
(* followed by a run of filler digits, so that every length from 0 to      *)
(* MaxFill + 4 and every leading pattern ("0", "91", "+") occurs.          *)
(***************************************************************************)
HeadChars == {"0", "1", "9", "+"}

Heads == UNION {[1..n -> HeadChars] : n \in 0..4}

NormInputs == {h \o Rep("5", k) : h \in Heads, k \in 0..MaxFill}

\* no fetch is under way
\* no entry point has been invoked
EntryIdle == entry = [pc |-> "idle"]

\* the threads that reach get_tenant_lookup through process_analytics: one
\* serving a Flask request, one running the scheduled report
Threads == {"request", "scheduler"}

\* the application as its modules leave it once imported: the scheduler has
\* no job, report_time is '09:30', no TenantLookup exists
AppIdle ==
    /\ jobs = {}
    /\ config = [report_time |-> <<"0", "9", ":", "3", "0">>]
    /\ _tenant_lookup = 0
    /\ instances = 0
    /\ thread = [t \in Threads |-> [pc |-> "idle", made |-> 0, ret |-> 0]]

FetchIdle ==
    /\ srv_total = 0
    /\ srv_page = 1
    /\ f_pc = "idle"
    /\ all_calls = <<>>
    /\ f_url = [uri |-> "Calls.json", at |-> 0]
    /\ f_params = TRUE
    /\ req_log = <<>>
    /\ resp_log = <<>>
    /\ fetch_ret = <<>>

NormInit ==
    /\ np_in \in NormInputs
    /\ np_out = <<>>
    /\ live_rows = {}
    /\ hist_rows = {}
    /\ pool_ok = TRUE
    /\ borrowed = 0
    /\ last = [op |-> "none"]
    /\ FetchIdle
    /\ EntryIdle
    /\ AppIdle

\* r = normalize_phone(x)
NormalizeInput ==
    /\ np_out = <<>>
    /\ np_out' = <<normalize_phone(np_in)>>
    /\ UNCHANGED <<appVars, entryVars, np_in, storeVars, borrowed, last, fetchVars>>

\* normalize_phone(r)
NormalizeOutput ==
    /\ Len(np_out) = 1
    /\ np_out' = Append(np_out, normalize_phone(np_out[1]))
    /\ UNCHANGED <<appVars, entryVars, np_in, storeVars, borrowed, last, fetchVars>>

NormNext == NormalizeInput \/ NormalizeOutput

SpecNorm == NormInit /\ [][NormNext]_vars

\* C10: normalize_phone is idempotent on every input that holds a digit:
\* applying it to its own result gives that result again.
C10_Idempotent ==
    (Len(np_out) = 2 /\ DigitsOf(np_in) /= <<>>) => np_out[2] = np_out[1]

\* an input of more than 12 digits, cut to its last 12, normalised twice
C10_Witness ==
    /\ Len(np_out) = 2
    /\ Len(DigitsOf(np_in)) > 12
    /\ np_out[1] = LastN(DigitsOf(np_in), 12)
    /\ np_in /= DigitsOf(np_in)

\* C11: normalize_phone returns None for the empty string and for every
\* non-empty input that contains no digit.
C11_NoDigitIsNone ==
    (Len(np_out) >= 1 /\ DigitsOf(np_in) = <<>>) => np_out[1] = None

\* C12: with d the digits of the input and d not empty, the result is
\* '91' + d[1:] when d has 11 digits and starts with '0', '91' + d when d
\* has 10 digits, d when d has 12 digits and starts with '91', the last 12
\* digits when d has more than 12, and d for every other length.
C12_BranchTable ==
    (Len(np_out) >= 1 /\ DigitsOf(np_in) /= <<>>) =>
        LET d == DigitsOf(np_in)
            n == Len(d)
        IN /\ (n = 11 /\ d[1] = "0")
                 => np_out[1] = <<"9", "1">> \o SubSeq(d, 2, n)
           /\ n = 10 => np_out[1] = <<"9", "1">> \o d
           /\ (n = 12 /\ d[1] = "9" /\ d[2] = "1") => np_out[1] = d
           /\ n > 12 => /\ Len(np_out[1]) = 12
                        /\ \A i \in 1..12 : np_out[1][i] = d[n - 12 + i]
           /\ (n < 10 \/ (n = 11 /\ d[1] /= "0")
                      \/ (n = 12 /\ ~(d[1] = "9" /\ d[2] = "1")))
                 => np_out[1] = d

\* an 11-digit number with a leading zero and punctuation was rewritten to
\* '91' and its last ten digits
C12_Witness ==
    /\ Len(np_out) >= 1
    /\ np_in /= DigitsOf(np_in)
    /\ Len(DigitsOf(np_in)) = 11
    /\ DigitsOf(np_in)[1] = "0"
    /\ np_out[1] = <<"9", "1">> \o Tail(DigitsOf(np_in))

(***************************************************************************)
(* The backing stores and the phones looked up.                            *)
(***************************************************************************)
NatA == <<"9", "8", "7", "6", "5", "4", "3", "2", "1", "0">>
NatB == <<"8", "8", "4", "0", "8", "1", "0", "7", "1", "9">>
NatC == <<"7", "0", "0", "0", "0", "0", "0", "0", "0", "1">>
KeyA == <<"9", "1">> \o NatA
KeyB == <<"9", "1">> \o NatB
KeyC == <<"9", "1">> \o NatC

\* raw caller strings: two spellings of A, two of B, one without a digit, ''
RawPhones ==
    { <<"+">> \o KeyA, NatA, <<"0">> \o NatB, KeyB, <<"n", "/", "a">>, <<>> }

\* tenant_phone_number values a live row may hold
LiveValues == { <<"+", "9", "1", "-">> \o NatA, KeyB, <<"N", "A">> }

\* (phone, mobile) of the historical rows; None is SQL NULL
HistValues ==
    { [phone |-> KeyA, mobile |-> None],
      [phone |-> KeyC, mobile |-> <<"+">> \o KeyB],
      [phone |-> None, mobile |-> <<"+", "9", "1", " ">> \o NatA] }

\* REGEXP_REPLACE(col, '[^0-9]', '', 'g'); NULL stays NULL
SqlDigits(v) == IF v = None THEN None ELSE DigitsOf(v)

\* the places where a store call can raise: the calls of the try block and
\* putconn, which _return_connection calls with no handler of its own
FailPoints == {"none", "getconn", "cursor", "live", "hist", "close", "putconn"}

\* _get_connection: raises when the pool is None, and getconn raises when
\* the pool is exhausted or the server cannot be reached
Acquired(fail) == pool_ok /\ borrowed < maxconn /\ fail /= "getconn"

\* the (is_tenant, call_type, info.found_in) triple of a lookup
Triple(t, c, f) == [is_tenant |-> t, call_type |-> c, found_in |-> f]

\* query_live of is_tenant finds a row
LiveHit(k) == \E v \in live_rows : SqlDigits(v) = k

\* query_historical of is_tenant finds a row
HistHit(k) == \E r \in hist_rows : SqlDigits(r.phone) = k \/ SqlDigits(r.mobile) = k

(***************************************************************************)
(* TenantLookup.is_tenant                                                  *)
(***************************************************************************)
is_tenant_found(k) ==
    IF LiveHit(k) THEN Triple(TRUE, "service", "live_data")
    ELSE IF HistHit(k) THEN Triple(TRUE, "service", "historical_data")
    ELSE Triple(FALSE, "enquiry", "None")

\* whether the step named fail is run by is_tenant for key k
is_tenant_raises(k, fail) ==
    \/ ~Acquired(fail)
    \/ fail \in {"cursor", "live", "close"}
    \/ fail = "hist" /\ ~LiveHit(k)

is_tenant_result(phone_number, fail) ==
    IF ~Truthy(phone_number) THEN Triple(FALSE, "None", "None")
    ELSE IF ~Truthy(normalize_phone(phone_number)) THEN Triple(FALSE, "None", "None")
    ELSE IF is_tenant_raises(normalize_phone(phone_number), fail)
         THEN Triple(FALSE, "unknown", "None")
    ELSE is_tenant_found(normalize_phone(phone_number))

\* connections still held when a try/finally operation ends: the finally
\* clause puts back the connection whenever one was taken, unless putconn
\* itself raises
HeldAfterFinally(took, fail) == IF took /\ fail = "putconn" THEN 1 ELSE 0

\* lines 160-162, 226-228, 258-260: the finally clause runs after the
\* return value is set and after the except clause; what putconn raises
\* there leaves the operation as an exception
escapes_finally(took, fail) == took /\ fail = "putconn"

is_tenant ==
    /\ last.op = "none"
    /\ \E phone_number \in RawPhones, fail \in FailPoints :
        LET took == /\ Truthy(phone_number)
                    /\ Truthy(normalize_phone(phone_number))
                    /\ Acquired(fail)
        IN /\ last' = [op |-> "is_tenant", phone |-> phone_number, fail |-> fail,
                       took |-> took, raised |-> escapes_finally(took, fail),
                       ret |-> is_tenant_result(phone_number, fail)]
           /\ borrowed' = borrowed + HeldAfterFinally(took, fail)
    /\ UNCHANGED <<appVars, entryVars, normVars, storeVars, fetchVars>>

\* the module-level categorize_call(phone_number), lines 291-298:
\* call_type if call_type != 'unknown' else 'enquiry'
categorize_call_type(phone_number, fail) ==
    LET call_type == is_tenant_result(phone_number, fail).call_type
    IN IF call_type /= "unknown" THEN call_type ELSE "enquiry"

tenant_lookup_categorize_call ==
    /\ last.op = "none"
    /\ \E phone_number \in RawPhones, fail \in FailPoints :
        LET took == /\ Truthy(phone_number)
                    /\ Truthy(normalize_phone(phone_number))
                    /\ Acquired(fail)
        IN /\ last' = [op |-> "categorize_call", phone |-> phone_number,
                       fail |-> fail, took |-> took,
                       raised |-> escapes_finally(took, fail),
                       ret |-> categorize_call_type(phone_number, fail)]
           /\ borrowed' = borrowed + HeldAfterFinally(took, fail)
    /\ UNCHANGED <<appVars, entryVars, normVars, storeVars, fetchVars>>

(***************************************************************************)
(* TenantLookup.batch_lookup                                               *)
(***************************************************************************)
\* [p for p in phone_numbers if p]
TruthyPhones(phone_numbers) == SelectSeq(phone_numbers, Truthy)

\* normalized_phones.keys()
BatchKeys(phone_numbers) ==
    {normalize_phone(TruthyPhones(phone_numbers)[i]) :
        i \in 1..Len(TruthyPhones(phone_numbers))}

\* normalized_phones[k]: the dict comprehension keeps the last p of a key
BatchOriginal(phone_numbers, k) ==
    LET tp == TruthyPhones(phone_numbers)
        at == {i \in 1..Len(tp) : normalize_phone(tp[i]) = k}
    IN tp[CHOOSE i \in at : \A j \in at : j <= i]

\* live_results
live_results(keys) == {SqlDigits(v) : v \in {w \in live_rows : SqlDigits(w) \in keys}}

\* the rows query_historical selects
HistSelected(keys) ==
    {r \in hist_rows : SqlDigits(r.phone) \in keys \/ SqlDigits(r.mobile) \in keys}

\* historical_results.keys(): row[0], the digits of the phone column
historical_results(keys) == {SqlDigits(r.phone) : r \in HistSelected(keys)}

\* lines 210-219 with the historical store asked first
batch_classify_hist_first(k, keys) ==
    IF k \in historical_results(keys) THEN Triple(TRUE, "service", "historical_data")
    ELSE IF k \in live_results(keys) THEN Triple(TRUE, "service", "live_data")
    ELSE Triple(FALSE, "enquiry", "None")

\* lines 210-219
batch_classify(k, keys) ==
    IF k \in live_results(keys) THEN Triple(TRUE, "service", "live_data")
    ELSE IF k \in historical_results(keys) THEN Triple(TRUE, "service", "historical_data")
    ELSE Triple(FALSE, "enquiry", "None")

\* the except clause leaves results as built so far: empty unless the
\* failing step is the closing of the cursor
batch_lookup_result(phone_numbers, fail) ==
    LET keys == BatchKeys(phone_numbers)
        full == [o \in {BatchOriginal(phone_numbers, k) : k \in keys} |->
                    batch_classify(normalize_phone(o), keys)]
    IN IF phone_numbers = <<>> \/ keys = {} THEN <<>>
       ELSE IF ~Acquired(fail) \/ fail \in {"cursor", "live", "hist"} THEN <<>>
       ELSE full

\* whether batch_lookup hit an exception
batch_lookup_failed(phone_numbers, fail) ==
    /\ BatchKeys(phone_numbers) /= {}
    /\ (~Acquired(fail) \/ fail \in {"cursor", "live", "hist", "close"})

PhoneLists == UNION {[1..n -> RawPhones] : n \in 0..MaxBatch}

batch_lookup ==
    /\ last.op = "none"
    /\ \E phone_numbers \in PhoneLists, fail \in FailPoints :
        LET took == BatchKeys(phone_numbers) /= {} /\ Acquired(fail)
        IN /\ last' = [op |-> "batch_lookup", phones |-> phone_numbers,
                       fail |-> fail, took |-> took,
                       raised |-> escapes_finally(took, fail),
                       failed |-> batch_lookup_failed(phone_numbers, fail),
                       ret |-> batch_lookup_result(phone_numbers, fail)]
           /\ borrowed' = borrowed + HeldAfterFinally(took, fail)
    /\ UNCHANGED <<appVars, entryVars, normVars, storeVars, fetchVars>>

(***************************************************************************)
(* TenantLookup.get_stats and validate_data.check_sample_database_records  *)
(***************************************************************************)
get_stats ==
    /\ last.op = "none"
    /\ \E fail \in FailPoints \ {"hist"} :
        LET took == Acquired(fail)
        IN /\ last' = [op |-> "get_stats", fail |-> fail, took |-> took,
                       raised |-> escapes_finally(took, fail),
                       ret |-> IF took /\ fail = "none"
                               THEN Cardinality(hist_rows) + Cardinality(live_rows)
                               ELSE -1]
           /\ borrowed' = borrowed + HeldAfterFinally(took, fail)
    /\ UNCHANGED <<appVars, entryVars, normVars, storeVars, fetchVars>>

\* connections still held when check_sample_database_records ends:
\* _return_connection is the last statement of the try block, with no
\* finally clause, so it runs only when nothing before it raised
HeldAfterTryOnly(took, fail) == IF took /\ fail /= "none" THEN 1 ELSE 0

check_sample_database_records ==
    /\ last.op = "none"
    /\ \E fail \in FailPoints \ {"hist"} :
        LET took == Acquired(fail)
        IN /\ last' = [op |-> "check_sample_database_records", fail |-> fail,
                       took |-> took]
           /\ borrowed' = borrowed + HeldAfterTryOnly(took, fail)
    /\ UNCHANGED <<appVars, entryVars, normVars, storeVars, fetchVars>>

\* the caller is done with the result of the call
Return ==
    /\ last.op /= "none"
    /\ last' = [op |-> "none"]
    /\ UNCHANGED <<appVars, entryVars, normVars, storeVars, borrowed, fetchVars>>

\* TenantLookup.__init__ has run: the pool was created or is None
LookupInit ==
    /\ np_in = <<>>
    /\ np_out = <<>>
    /\ live_rows \in SUBSET LiveValues
    /\ hist_rows \in SUBSET HistValues
    /\ pool_ok \in BOOLEAN
    /\ borrowed = 0
    /\ last = [op |-> "none"]
    /\ FetchIdle
    /\ EntryIdle
    /\ AppIdle

\* one operation of TenantLookup on the stores as they are
LookupNext ==
    \/ is_tenant
    \/ tenant_lookup_categorize_call
    \/ batch_lookup
    \/ get_stats

SpecLookup == LookupInit /\ [][LookupNext]_vars

\* any sequence of the operations that borrow from the pool,
\* validate_data's included
PoolNext ==
    \/ is_tenant
    \/ tenant_lookup_categorize_call
    \/ batch_lookup
    \/ get_stats
    \/ check_sample_database_records
    \/ Return

SpecPool == LookupInit /\ [][PoolNext]_vars

\* C1: after any sequence of is_tenant, batch_lookup, get_stats and
\* check_sample_database_records, whatever raised inside them, no borrowed
\* connection is outstanding.
C1_NoOutstandingConnection == borrowed = 0

\* the store queries of the last batch_lookup both ran
BatchAnswered == last.took /\ last.fail \in {"none", "close"}

LiveTriple == Triple(TRUE, "service", "live_data")

HistTriple == Triple(TRUE, "service", "historical_data")

\* C6: a phone key that matches a live row is classified 'service' with
\* found_in 'live_data' by batch_lookup and by is_tenant whenever the store
\* answered, whether or not a historical row matches the key too.
C6_LiveWins ==
    /\ (last.op = "batch_lookup" /\ BatchAnswered) =>
          /\ \A o \in DOMAIN last.ret :
                LiveHit(normalize_phone(o)) => last.ret[o] = LiveTriple
          /\ \A k \in BatchKeys(last.phones) :
                LiveHit(k) => \E o \in DOMAIN last.ret : normalize_phone(o) = k
    /\ (last.op = "is_tenant" /\ last.ret.call_type /= "unknown"
            /\ Truthy(normalize_phone(last.phone))
            /\ LiveHit(normalize_phone(last.phone))) =>
          last.ret = LiveTriple

\* both stores hold the key, and both lookups have reported it live
C6_Witness ==
    /\ last.op = "batch_lookup"
    /\ BatchAnswered
    /\ \E o \in DOMAIN last.ret :
          /\ LiveHit(normalize_phone(o))
          /\ HistHit(normalize_phone(o))
          /\ last.ret[o] = LiveTriple

\* C7: batch_lookup classifies a key with no live match as 'service' with
\* found_in 'historical_data' whenever a historical row matches it on the
\* phone column or on the mobile column.
C7_HistoricalEitherColumn ==
    (last.op = "batch_lookup" /\ BatchAnswered) =>
        \A o \in DOMAIN last.ret :
            (~LiveHit(normalize_phone(o)) /\ HistHit(normalize_phone(o)))
                => last.ret[o] = HistTriple

\* C8: every raw string of the batch_lookup input that normalizes to a key
\* is in the returned mapping, with the classification of its key.
C8_EveryRawStringMapped ==
    (last.op = "batch_lookup" /\ BatchAnswered) =>
        \A i \in 1..Len(last.phones) :
            Truthy(last.phones[i]) =>
                /\ last.phones[i] \in DOMAIN last.ret
                /\ last.ret[last.phones[i]] =
                      batch_classify(normalize_phone(last.phones[i]),
                                     BatchKeys(last.phones))

\* C25: the module-level categorize_call returns 'service' or 'enquiry' for
\* every phone value: an empty one, one without a digit, and one whose
\* lookup fails inside is_tenant.
C25_ServiceOrEnquiry ==
    (last.op = "categorize_call" /\ ~last.raised) =>
        last.ret \in {"service", "enquiry"}

\* C29: for a phone with digits and stores that answer, is_tenant(p) and
\* batch_lookup([p]) give p the same is-tenant flag, the same category and
\* the same provenance.
C29_SingleAgreesWithBatch ==
    (last.op = "is_tenant" /\ last.took /\ last.fail = "none") =>
        LET batch == batch_lookup_result(<<last.phone>>, "none")
        IN /\ last.phone \in DOMAIN batch
           /\ batch[last.phone] = last.ret

(***************************************************************************)
(* ExotelAnalytics.fetch_calls against a telephony server that holds       *)
(* srv_total records, numbered from 1, and serves them in order, srv_page  *)
(* to a page.  One action is one iteration of the while loop.              *)
(***************************************************************************)
\* params['PageSize']
PageSize == 100

\* f"{self.base_url}/Calls.json"
BaseUrl == [uri |-> "Calls.json", at |-> 0]

\* Metadata.NextPageUri naming the page that starts after record c
NextPageUri(c) == [uri |-> "NextPageUri", at |-> c]

\* no NextPageUri in the metadata
NoCursor == [uri |-> "None", at |-> 0]

\* data.get('Calls', []) of the page the url names
ServedPage(url) ==
    LET left == srv_total - url.at
        n == IF left < srv_page THEN left ELSE srv_page
    IN [i \in 1..n |-> url.at + i]

\* what a requests.get can come back with: a 200 whose cursor is absent or
\* names the following page, another status, or an exception (a timeout,
\* a connection failure, a body that is no JSON)
Responses(url) ==
    {[kind |-> "ok", calls |-> ServedPage(url), next |-> NoCursor],
     [kind |-> "ok", calls |-> ServedPage(url),
      next |-> NextPageUri(url.at + Len(ServedPage(url)))],
     [kind |-> "status", calls |-> <<>>, next |-> NoCursor],
     [kind |-> "raise", calls |-> <<>>, next |-> NoCursor]}

\* the loop's variables and, once it has left the loop, the return value
Loop(pc, calls, url, params, ret) ==
    [pc |-> pc, all_calls |-> calls, url |-> url, params |-> params, ret |-> ret]

\* lines 123-125 retrying instead of leaving the loop
after_status_retry(calls, url, params) == Loop("request", calls, url, params, <<>>)

\* lines 123-128: another status than 200
after_status(calls, url, params) == Loop("done", calls, url, params, calls)

\* lines 101-121 without the tests that leave the loop
after_ok_no_break(calls, url, params, resp) ==
    Loop("request", calls \o resp.calls,
         IF resp.next = NoCursor THEN url ELSE resp.next, FALSE, <<>>)

\* lines 101-121 without the test for an empty page
after_ok_no_empty_test(calls, url, params, resp) ==
    IF resp.next = NoCursor
    THEN Loop("done", calls \o resp.calls, url, params, calls \o resp.calls)
    ELSE Loop("request", calls \o resp.calls, resp.next, FALSE, <<>>)

\* lines 101-121 with all_calls = calls in place of all_calls.extend(calls)
after_ok_keep_last_page(calls, url, params, resp) ==
    IF resp.calls = <<>> THEN Loop("done", calls, url, params, calls)
    ELSE IF resp.next = NoCursor
         THEN Loop("done", resp.calls, url, params, resp.calls)
    ELSE Loop("request", resp.calls, resp.next, FALSE, <<>>)

\* lines 101-121 without params = {} (line 120)
after_ok_keep_params(calls, url, params, resp) ==
    IF resp.calls = <<>> THEN Loop("done", calls, url, params, calls)
    ELSE IF resp.next = NoCursor
         THEN Loop("done", calls \o resp.calls, url, params, calls \o resp.calls)
    ELSE Loop("request", calls \o resp.calls, resp.next, params, <<>>)

\* lines 101-121, 127-128: status 200
after_ok(calls, url, params, resp) ==
    IF resp.calls = <<>> THEN Loop("done", calls, url, params, calls)
    ELSE IF resp.next = NoCursor
         THEN Loop("done", calls \o resp.calls, url, params, calls \o resp.calls)
    ELSE Loop("request", calls \o resp.calls, resp.next, FALSE, <<>>)

\* lines 130-132: requests.get or response.json() raised
after_raise(calls, url, params) == Loop("done", calls, url, params, <<>>)

fetch_step(calls, url, params, resp) ==
    IF resp.kind = "ok" THEN after_ok(calls, url, params, resp)
    ELSE IF resp.kind = "status" THEN after_status(calls, url, params)
    ELSE after_raise(calls, url, params)

\* lines 73-92: strptime raises on a date that is not YYYY-MM-DD
fetch_calls_begin(dates_ok) ==
    /\ f_pc' = IF dates_ok THEN "request" ELSE "done"
    /\ all_calls' = <<>>
    /\ f_url' = BaseUrl
    /\ f_params' = TRUE
    /\ fetch_ret' = <<>>

\* fetch_calls called on its own
fetch_calls_start ==
    /\ f_pc = "idle"
    /\ \E dates_ok \in BOOLEAN : fetch_calls_begin(dates_ok)
    /\ UNCHANGED <<appVars, entryVars, normVars, storeVars, borrowed, last, srv_total, srv_page,
                   req_log, resp_log>>

\* lines 93-132: one requests.get and what the loop does with its outcome
fetch_calls_request ==
    /\ f_pc = "request"
    /\ \E resp \in Responses(f_url) :
        LET nxt == fetch_step(all_calls, f_url, f_params, resp)
        IN /\ req_log' = Append(req_log, [url |-> f_url, params |-> f_params])
           /\ resp_log' = Append(resp_log, resp)
           /\ f_pc' = nxt.pc
           /\ all_calls' = nxt.all_calls
           /\ f_url' = nxt.url
           /\ f_params' = nxt.params
           /\ fetch_ret' = nxt.ret
    /\ UNCHANGED <<appVars, entryVars, normVars, storeVars, borrowed, last, srv_total, srv_page>>

ServerPageSizes == (1..MaxPage) \cup {PageSize}

FetchInit ==
    /\ np_in = <<>>
    /\ np_out = <<>>
    /\ live_rows = {}
    /\ hist_rows = {}
    /\ pool_ok = TRUE
    /\ borrowed = 0
    /\ last = [op |-> "none"]
    /\ srv_total \in 0..MaxTotal
    /\ srv_page \in ServerPageSizes
    /\ f_pc = "idle"
    /\ all_calls = <<>>
    /\ f_url = BaseUrl
    /\ f_params = TRUE
    /\ req_log = <<>>
    /\ resp_log = <<>>
    /\ fetch_ret = <<>>
    /\ EntryIdle
    /\ AppIdle

FetchNext == fetch_calls_start \/ fetch_calls_request

SpecFetch == FetchInit /\ [][FetchNext]_vars

\* the records of the first n responses, page after page
RECURSIVE PagesBefore(_)
PagesBefore(n) ==
    IF n = 0 THEN <<>> ELSE PagesBefore(n - 1) \o resp_log[n].calls

\* C2: when a requests.get raises (timeout, connection failure) after pages
\* were accumulated, fetch_calls returns those pages, as it does on a
\* non-200 status, and issues no further request.
C2_RaiseReturnsPartial ==
    \A i \in DOMAIN resp_log :
        resp_log[i].kind = "raise" =>
            /\ i = Len(req_log)
            /\ f_pc = "done"
            /\ fetch_ret = PagesBefore(i - 1)

\* C3: a response with another status than 200 is the last request of the
\* fetch, and fetch_calls returns (does not raise) the concatenation of the
\* pages received before it.
C3_StatusReturnsPartial ==
    \A i \in DOMAIN resp_log :
        resp_log[i].kind = "status" =>
            /\ i = Len(req_log)
            /\ f_pc = "done"
            /\ fetch_ret = PagesBefore(i - 1)

\* two pages were received and the third request came back with an error status
C3_Witness ==
    /\ Len(resp_log) = 3
    /\ resp_log[3].kind = "status"
    /\ fetch_ret = PagesBefore(2)
    /\ Len(fetch_ret) = 2 * srv_page

\* a 200 response with zero records or without a NextPageUri
EndOfPages(resp) == resp.kind = "ok" /\ (resp.calls = <<>> \/ resp.next = NoCursor)

\* C4: once a response with zero records or without a NextPageUri has been
\* received, the fetch issues no further request: in every state such a
\* response answers the last request issued and the loop has been left.
C4_NoRequestAfterEnd ==
    \A i \in DOMAIN resp_log :
        EndOfPages(resp_log[i]) => (i = Len(req_log) /\ f_pc = "done")

\* an empty page that carries a cursor has ended the fetch
C4_Witness ==
    /\ f_pc = "done"
    /\ Len(resp_log) > 1
    /\ resp_log[Len(resp_log)].kind = "ok"
    /\ resp_log[Len(resp_log)].calls = <<>>
    /\ resp_log[Len(resp_log)].next /= NoCursor

\* ceil(totalRecords / pageSize) + 1
MaxRequests == ((srv_total + srv_page - 1) \div srv_page) + 1

\* C5: fetch_calls issues at most ceil(srv_total / srv_page) + 1 requests and
\* has terminated by the time it has issued that many.
C5_RequestBound ==
    /\ Len(req_log) <= MaxRequests
    /\ Len(req_log) = MaxRequests => f_pc = "done"

\* the bound is met: every page and one empty page more were requested
C5_Witness ==
    /\ f_pc = "done"
    /\ srv_total > srv_page
    /\ Len(req_log) = MaxRequests
    /\ Len(fetch_ret) = srv_total

\* C24: only the first request of a fetch carries the DateCreated, PageSize
\* and SortBy parameters; every later request goes to the NextPageUri of
\* the response just before it and carries no parameters.
C24_OnlyFirstRequestFiltered ==
    \A i \in DOMAIN req_log :
        IF i = 1
        THEN req_log[i].url = BaseUrl /\ req_log[i].params
        ELSE /\ ~req_log[i].params
             /\ resp_log[i - 1].kind = "ok"
             /\ resp_log[i - 1].next /= NoCursor
             /\ req_log[i].url = resp_log[i - 1].next

\* a third request followed the cursor of the second response
C24_Witness ==
    /\ Len(req_log) = 3
    /\ req_log[1].params
    /\ ~req_log[3].params
    /\ req_log[3].url = resp_log[2].next
    /\ req_log[3].url /= req_log[2].url

(***************************************************************************)
(* ExotelAnalytics.process_analytics.  A call record carries the fields    *)
(* the categorisation and the exophone filter read: Sid, Direction, From,  *)
(* To and PhoneNumber; None is a field the record does not have (NaN in    *)
(* the DataFrame).  Status, Duration and DateCreated feed only the         *)
(* histograms and are left out.                                            *)
(***************************************************************************)
\* the published number and another destination
Exophone == <<"0", "8", "0", "4", "7", "3", "6", "1", "4", "9", "9">>
OtherTo == <<"0", "8", "0", "4", "1", "2", "3", "4", "5", "6", "7">>

Directions == {"inbound", "outbound-api", "None"}

\* From matters only for inbound records; the others carry one fixed caller
CallRecords ==
    {r \in [Sid : 1..2, Direction : Directions,
            From : {NatA, <<"+">> \o KeyA, KeyB},
            To : {Exophone, OtherTo}, PhoneNumber : {None}] :
        r.Direction /= "inbound" => r.From = NatA}

CallLists == UNION {[1..n -> CallRecords] : n \in 0..MaxCalls}

\* the records of an API whose records have no To field
WithoutTo(calls) == [i \in 1..Len(calls) |-> [calls[i] EXCEPT !.To = None]]

\* exophone_filter values: None or the published number
ExophoneFilters == {None, Exophone}

\* str(row.get(field, ''))
StrOf(v) == IF v = None THEN <<"n", "a", "n">> ELSE v

\* field in df.columns: some record has the field
HasColumn(calls, field) == \E i \in 1..Len(calls) : calls[i][field] /= None

\* 'Direction' in df.columns
HasDirection(calls) == \E i \in 1..Len(calls) : calls[i].Direction /= "None"

\* line 148
filter_digits(exophone_filter) == LastN(DigitsOf(exophone_filter), 10)

\* lines 151-154
matches_exophone(row, fd) ==
    Contains(StrOf(row.PhoneNumber), fd) \/ Contains(StrOf(row.To), fd)

\* lines 143-157
Filtered(calls, exophone_filter) ==
    IF Truthy(exophone_filter)
          /\ (HasColumn(calls, "PhoneNumber") \/ HasColumn(calls, "To"))
    THEN LET fd == filter_digits(exophone_filter)
             keep(row) == matches_exophone(row, fd)
         IN SelectSeq(calls, keep)
    ELSE calls

\* df[df['Direction'] == 'inbound']
Inbound(df) == LET inb(row) == row.Direction = "inbound" IN SelectSeq(df, inb)

\* incoming_df['From'].unique().tolist(): first occurrences, in order
RECURSIVE UniqueFrom(_, _)
UniqueFrom(inc, n) ==
    IF n = 0 THEN <<>>
    ELSE IF \E j \in 1..(n - 1) : inc[j].From = inc[n].From
         THEN UniqueFrom(inc, n - 1)
    ELSE Append(UniqueFrom(inc, n - 1), inc[n].From)

\* lines 186-188 with 'unknown' as the default of a phone without a result
categorize_call_default_unknown(lookup_results, phone) ==
    IF phone \in DOMAIN lookup_results THEN lookup_results[phone].call_type
    ELSE "unknown"

\* lines 186-188: lookup_results.get(phone, (False, 'enquiry', None))[1]
categorize_call(lookup_results, phone) ==
    IF phone \in DOMAIN lookup_results THEN lookup_results[phone].call_type
    ELSE "enquiry"

\* lines 193-196: the left merge on Sid gives one row for each incoming row
\* of the same Sid, and one 'outgoing' row when there is none
RECURSIVE MergeRows(_, _, _)
MergeRows(df, tagged, n) ==
    IF n = 0 THEN <<>>
    ELSE LET same(t) == t.Sid = df[n].Sid
             hits == SelectSeq(tagged, same)
         IN MergeRows(df, tagged, n - 1) \o
            (IF hits = <<>>
             THEN <<[rec |-> df[n], call_category |-> "outgoing"]>>
             ELSE [j \in 1..Len(hits) |->
                     [rec |-> df[n], call_category |-> hits[j].call_category]])

\* lines 174-202: the rows of df with their call_category
Categorized(calls, df, lookup_results) ==
    IF HasDirection(calls) /\ HasColumn(calls, "From")
    THEN IF Len(Inbound(df)) > 0
         THEN LET inc == Inbound(df)
                  tagged == [i \in 1..Len(inc) |->
                                [Sid |-> inc[i].Sid,
                                 call_category |->
                                     categorize_call(lookup_results, inc[i].From)]]
              IN MergeRows(df, tagged, Len(df))
         ELSE [i \in 1..Len(df) |-> [rec |-> df[i], call_category |-> "outgoing"]]
    ELSE [i \in 1..Len(df) |-> [rec |-> df[i], call_category |-> "unknown"]]

\* len(df[...]) for the rows of one category
CountCategory(rows, c) ==
    Cardinality({i \in 1..Len(rows) : rows[i].call_category = c})

\* len(df[df['Direction'] == 'inbound'])
CountInbound(rows) ==
    Cardinality({i \in 1..Len(rows) : rows[i].rec.Direction = "inbound"})

\* len(df[df['Direction'].str.startswith('outbound', na=False)])
CountOutbound(rows) ==
    Cardinality({i \in 1..Len(rows) : rows[i].rec.Direction = "outbound-api"})

\* round(num / den, 0) for den > 0, a tie going to the even neighbour
RoundHalfEven(num, den) ==
    LET q == num \div den
        r == num - q * den
    IN IF 2 * r < den THEN q
       ELSE IF 2 * r > den THEN q + 1
       ELSE IF q % 2 = 0 THEN q ELSE q + 1

\* lines 229-231: round((part / whole) * 100, 1), in tenths of a percent
\* (1000 is 100.0), and 0 when there is no incoming call
Percentage(part, whole) ==
    IF whole > 0 THEN RoundHalfEven(1000 * part, whole) ELSE 0

\* lines 207-231: the counts and percentages of the snapshot
Analytics(calls, rows) ==
    LET incoming_calls == IF HasDirection(calls) THEN CountInbound(rows) ELSE 0
        service_calls == CountCategory(rows, "service")
        enquiry_calls == CountCategory(rows, "enquiry")
    IN [total_calls |-> Len(rows),
        incoming_calls |-> incoming_calls,
        outgoing_calls |-> IF HasDirection(calls)
                           THEN CountOutbound(rows) ELSE 0,
        service_calls |-> service_calls,
        enquiry_calls |-> enquiry_calls,
        service_percentage |-> Percentage(service_calls, incoming_calls),
        enquiry_percentage |-> Percentage(enquiry_calls, incoming_calls),
        category_breakdown |->
            [c \in {"service", "enquiry", "outgoing", "unknown"} |->
                CountCategory(rows, c)]]

\* lines 136-137, 159-161 and 239-241: the exits that return None; the
\* except clause catches what batch_lookup raises
returns_none(calls, df, raised) == calls = <<>> \/ Len(df) = 0 \/ raised

\* whether process_analytics reaches the batch_lookup call of line 183
CallsLookup(calls, df) ==
    /\ Len(df) > 0
    /\ HasDirection(calls) /\ HasColumn(calls, "From")
    /\ Len(Inbound(df)) > 0

\* what one call of process_analytics leaves behind; each intermediate
\* value of the function body is computed once, in the order of the code
process_analytics_call(calls, exophone_filter, fail) ==
    \E df \in {Filtered(calls, exophone_filter)} :
    \E looked \in {CallsLookup(calls, df)} :
    \E phone_numbers \in {UniqueFrom(Inbound(df), Len(Inbound(df)))} :
    \E lookup_results \in {IF looked THEN batch_lookup_result(phone_numbers, fail)
                           ELSE <<>>} :
    \E took \in {looked /\ BatchKeys(phone_numbers) /= {} /\ Acquired(fail)} :
    \E raised \in {escapes_finally(took, fail)} :
    \E rows \in {IF Len(df) = 0 \/ raised THEN <<>>
                 ELSE Categorized(calls, df, lookup_results)} :
        /\ last' = [op |-> "process_analytics", calls |-> calls,
                    exophone_filter |-> exophone_filter, df |-> df,
                    lookup |-> IF ~looked THEN "not called"
                               ELSE IF raised THEN "raised"
                               ELSE IF took /\ fail \in {"none", "close"}
                                    THEN "answered"
                               ELSE "failed",
                    rows |-> rows,
                    none |-> returns_none(calls, df, raised),
                    ret |-> Analytics(calls, rows)]
        /\ borrowed' = borrowed + HeldAfterFinally(took, fail)

process_analytics ==
    /\ last.op = "none"
    /\ \E calls0 \in CallLists, exophone_filter \in ExophoneFilters,
          fail \in FailPoints :
        \E has_to \in (IF exophone_filter = None THEN {TRUE} ELSE BOOLEAN) :
        \E calls \in {IF has_to THEN calls0 ELSE WithoutTo(calls0)} :
            process_analytics_call(calls, exophone_filter, fail)
    /\ UNCHANGED <<appVars, entryVars, normVars, storeVars, fetchVars>>

\* the stores of the analytics runs: B is a live tenant, A a historical
\* tenant or none
AnalyticsInit ==
    /\ np_in = <<>>
    /\ np_out = <<>>
    /\ live_rows = {KeyB}
    /\ hist_rows \in {{}, {[phone |-> KeyA, mobile |-> None]}}
    /\ pool_ok \in BOOLEAN
    /\ borrowed = 0
    /\ last = [op |-> "none"]
    /\ FetchIdle
    /\ EntryIdle
    /\ AppIdle

\* one call of process_analytics
AnalyticsNext == process_analytics

SpecAnalytics == AnalyticsInit /\ [][AnalyticsNext]_vars

\* C9: when the store query of the classification fails, process_analytics
\* still returns a snapshot, no record is counted as 'service', and every
\* retained inbound record is counted, each time as 'enquiry'.
C9_FailedLookupIsEnquiry ==
    (last.op = "process_analytics" /\ last.lookup = "failed") =>
        /\ ~last.none
        /\ last.ret.service_calls = 0
        /\ \A i \in 1..Len(last.rows) :
              last.rows[i].rec.Direction = "inbound"
                  => last.rows[i].call_category = "enquiry"
        /\ \A i \in 1..Len(last.df) :
              last.df[i].Direction = "inbound"
                  => \E j \in 1..Len(last.rows) : last.rows[j].rec = last.df[i]
        /\ last.ret.enquiry_calls >= Len(Inbound(last.df))

\* a tenant's inbound call counted as an enquiry because the query failed
\* on a pool that works
C9_Witness ==
    /\ last.op = "process_analytics"
    /\ last.lookup = "failed"
    /\ pool_ok
    /\ last.ret.enquiry_calls >= 1
    /\ \E i \in 1..Len(last.df) :
          /\ last.df[i].Direction = "inbound"
          /\ LiveHit(normalize_phone(last.df[i].From))

\* whether the record carries the digits in its To or PhoneNumber field
CarriesDigits(rec, fd) ==
    \/ rec.To /= None /\ Contains(rec.To, fd)
    \/ rec.PhoneNumber /= None /\ Contains(rec.PhoneNumber, fd)

\* C13: with an exophone filter, every record counted in the snapshot has
\* the last 10 digits of the filter inside its To or PhoneNumber field, and
\* every input record that has them is counted; also for a record set in
\* which no record carries either field.
C13_ExophoneFilter ==
    (last.op = "process_analytics" /\ Truthy(last.exophone_filter)) =>
        LET fd == LastN(DigitsOf(last.exophone_filter), 10)
        IN /\ \A j \in 1..Len(last.rows) : CarriesDigits(last.rows[j].rec, fd)
           /\ \A i \in 1..Len(last.calls) :
                 CarriesDigits(last.calls[i], fd)
                     => \E j \in 1..Len(last.rows) :
                           last.rows[j].rec = last.calls[i]

\* C14: process_analytics returns None exactly when no record is left after
\* the exophone filter; a retained set without an inbound record still gives
\* a snapshot, with service_calls = 0 and enquiry_calls = 0.
C14_NoneIffEmpty ==
    last.op = "process_analytics" =>
        /\ last.none <=> Filtered(last.calls, last.exophone_filter) = <<>>
        /\ (last.df /= <<>> /\ Inbound(last.df) = <<>>) =>
              /\ ~last.none
              /\ last.ret.total_calls = Len(last.df)
              /\ last.ret.service_calls = 0
              /\ last.ret.enquiry_calls = 0

\* the records carry distinct Sids
DistinctSids(calls) ==
    \A i, j \in 1..Len(calls) : calls[i].Sid = calls[j].Sid => i = j

\* C15: an inbound record is tagged 'service' or 'enquiry', an outbound
\* record 'outgoing', and a record without a direction 'unknown', also when
\* other records of the set carry a direction (stated for records of
\* distinct Sids).
C15_CategoryByDirection ==
    (last.op = "process_analytics" /\ DistinctSids(last.calls)) =>
        \A j \in 1..Len(last.rows) :
            LET row == last.rows[j]
            IN /\ row.rec.Direction = "inbound"
                     => row.call_category \in {"service", "enquiry"}
               /\ row.rec.Direction = "outbound-api"
                     => row.call_category = "outgoing"
               /\ row.rec.Direction = "None"
                     => row.call_category = "unknown"

\* C16: in every snapshot service_percentage and enquiry_percentage lie in
\* [0, 100], and both are 0 when incoming_calls is 0.
C16_PercentageRange ==
    (last.op = "process_analytics" /\ ~last.none) =>
        /\ last.ret.service_percentage \in 0..1000
        /\ last.ret.enquiry_percentage \in 0..1000
        /\ last.ret.incoming_calls = 0 =>
              /\ last.ret.service_percentage = 0
              /\ last.ret.enquiry_percentage = 0

\* C26: when the records carry the Direction and From fields, service_calls
\* plus enquiry_calls equals incoming_calls in the snapshot, whether the
\* lookup answered, failed or had no entry for some phone.
C26_ServicePlusEnquiryIsIncoming ==
    (last.op = "process_analytics" /\ ~last.none
        /\ \A i \in 1..Len(last.calls) : last.calls[i].Direction /= "None"
        /\ HasColumn(last.calls, "From")) =>
        last.ret.service_calls + last.ret.enquiry_calls = last.ret.incoming_calls

\* C30: each retained record is counted once: total_calls is the number of
\* retained records and the counts of category_breakdown add up to it, also
\* when two records carry the same Sid.
C30_EachRetainedRecordOnce ==
    (last.op = "process_analytics" /\ ~last.none) =>
        /\ last.ret.total_calls = Len(last.df)
        /\ last.ret.category_breakdown["service"] + last.ret.category_breakdown["enquiry"]
             + last.ret.category_breakdown["outgoing"] + last.ret.category_breakdown["unknown"]
             = last.ret.total_calls

(***************************************************************************)
(* calculate_comparison.  A snapshot argument is None or a dict; only the  *)
(* four compared counts of a dict are kept.  Percentages are in tenths of  *)
(* a percent, as in Percentage.                                            *)
(***************************************************************************)
\* the largest count of a compared metric
MaxMetric == 2

\* the metrics in the order of the assignments
Metrics == <<"total_calls", "incoming_calls", "service_calls", "enquiry_calls">>

MetricNames == {Metrics[i] : i \in 1..Len(Metrics)}

NoAnalytics == [kind |-> "None", d |-> <<>>]

\* None, the empty dict and the dicts holding the four counts
AnalyticsArgs ==
    {NoAnalytics, [kind |-> "dict", d |-> <<>>]}
        \cup {[kind |-> "dict", d |-> f] : f \in [MetricNames -> 0..MaxMetric]}

\* the absence test as `is None`
is_none(a) == a.kind = "None"

\* not a: None and the empty dict are both falsy
falsy(a) == a.kind = "None" \/ DOMAIN a.d = {}

\* a.get(metric, 0)
Get(a, metric) == IF metric \in DOMAIN a.d THEN a.d[metric] ELSE 0

\* the percentage guard letting a zero previous value through
pct_guard_nonnegative(previous_analytics, metric) ==
    Get(previous_analytics, metric) >= 0

\* lines 271, 274, 277, 280: if previous_analytics.get(metric, 0) > 0
pct_guard(previous_analytics, metric) == Get(previous_analytics, metric) > 0

\* the division of the guarded statement raises (KeyError, ZeroDivisionError)
pct_raises(previous_analytics, metric) ==
    /\ pct_guard(previous_analytics, metric)
    /\ \/ metric \notin DOMAIN previous_analytics.d
       \/ previous_analytics.d[metric] = 0

\* an exception left the try block at one of the first n percentages
raised_within(previous_analytics, n) ==
    \E j \in 1..n : pct_raises(previous_analytics, Metrics[j])

\* lines 265-268
change_of(current_analytics, previous_analytics, metric) ==
    Get(current_analytics, metric) - Get(previous_analytics, metric)

\* lines 271-281: the i-th percentage, left at 0 when its statement is not
\* reached or its guard is false
pct_of(current_analytics, previous_analytics, i) ==
    IF raised_within(previous_analytics, i)
          \/ ~pct_guard(previous_analytics, Metrics[i])
    THEN 0
    ELSE RoundHalfEven(
             1000 * change_of(current_analytics, previous_analytics, Metrics[i]),
             previous_analytics.d[Metrics[i]])

\* lines 249-258
ZeroComparison ==
    [change |-> [m \in MetricNames |-> 0], pct |-> [m \in MetricNames |-> 0],
     raised |-> FALSE]

\* lines 244-286: the returned comparison and whether the except clause ran
calculate_comparison_result(current_analytics, previous_analytics) ==
    IF falsy(previous_analytics) \/ falsy(current_analytics)
    THEN ZeroComparison
    ELSE [change |-> [m \in MetricNames |->
                        change_of(current_analytics, previous_analytics, m)],
          pct |-> [m \in MetricNames |->
                     LET i == CHOOSE j \in 1..Len(Metrics) : Metrics[j] = m
                     IN pct_of(current_analytics, previous_analytics, i)],
          raised |-> raised_within(previous_analytics, Len(Metrics))]

calculate_comparison ==
    /\ last.op = "none"
    /\ \E current_analytics \in AnalyticsArgs, previous_analytics \in AnalyticsArgs :
          last' = [op |-> "calculate_comparison",
                   current |-> current_analytics,
                   previous |-> previous_analytics,
                   ret |-> calculate_comparison_result(current_analytics,
                                                       previous_analytics)]
    /\ UNCHANGED <<appVars, entryVars, normVars, storeVars, borrowed, fetchVars>>

CompareInit ==
    /\ np_in = <<>>
    /\ np_out = <<>>
    /\ live_rows = {}
    /\ hist_rows = {}
    /\ pool_ok = TRUE
    /\ borrowed = 0
    /\ last = [op |-> "none"]
    /\ FetchIdle
    /\ EntryIdle
    /\ AppIdle

CompareNext == calculate_comparison \/ Return

SpecCompare == CompareInit /\ [][CompareNext]_vars

\* C17: for each of the four metrics the change is current minus previous
\* and the percentage is 0 whenever the previous value is 0; no division by
\* zero is attempted.
C17_ChangeAndZeroGuard ==
    (last.op = "calculate_comparison"
        /\ DOMAIN last.current.d = MetricNames
        /\ DOMAIN last.previous.d = MetricNames) =>
        /\ ~last.ret.raised
        /\ \A m \in MetricNames :
              /\ last.ret.change[m] = last.current.d[m] - last.previous.d[m]
              /\ last.previous.d[m] = 0 => last.ret.pct[m] = 0

\* incoming calls rose from 0 while total calls doubled: the first
\* percentage is 0 and the second 100.0
C17_Witness ==
    /\ last.op = "calculate_comparison"
    /\ DOMAIN last.current.d = MetricNames
    /\ DOMAIN last.previous.d = MetricNames
    /\ last.previous.d["incoming_calls"] = 0
    /\ last.current.d["incoming_calls"] = MaxMetric
    /\ last.ret.change["incoming_calls"] = MaxMetric
    /\ last.ret.pct["incoming_calls"] = 0
    /\ last.previous.d["total_calls"] = 1
    /\ last.current.d["total_calls"] = 2
    /\ last.ret.pct["total_calls"] = 1000

\* C18: calculate_comparison always returns, and when the current or the
\* previous snapshot is absent (None or empty) all four changes and all four
\* percentages are 0.
C18_AbsentGivesZeros ==
    (last.op = "calculate_comparison"
        /\ \/ last.current.kind = "None" \/ last.current.d = <<>>
           \/ last.previous.kind = "None" \/ last.previous.d = <<>>) =>
        /\ ~last.ret.raised
        /\ \A m \in MetricNames :
              last.ret.change[m] = 0 /\ last.ret.pct[m] = 0

\* a current snapshot with calls compared with an empty previous one
C18_Witness ==
    /\ last.op = "calculate_comparison"
    /\ last.previous = [kind |-> "dict", d |-> <<>>]
    /\ DOMAIN last.current.d = MetricNames
    /\ last.current.d["total_calls"] > 0
    /\ last.ret = ZeroComparison

(***************************************************************************)
(* The entry points: get_analytics (/api/analytics),                       *)
(* get_analytics_comparison (/api/analytics-comparison) and                *)
(* lambda_handler.  An entry point reads its request, runs fetch_calls     *)
(* request by request, hands the records to process_analytics and          *)
(* responds.  generate_charts and the configuration of the Flask app are   *)
(* taken to succeed.                                                       *)
(***************************************************************************)
Handlers == {"get_analytics", "get_analytics_comparison", "lambda_handler"}

\* the dates of the request: absent, present but not YYYY-MM-DD, or valid
DateInputs == {"missing", "unparseable", "valid"}

\* the record of the telephony account with this number: the first is an
\* outbound call to another destination, the others reach the published
\* number, from a tenant or a prospect or as an outbound call
ServedRecord(id) ==
    [Sid |-> id,
     Direction |-> IF id % 3 = 1 THEN "outbound-api" ELSE "inbound",
     From |-> IF id % 3 = 2 THEN KeyB ELSE NatA,
     To |-> IF id = 1 THEN OtherTo ELSE Exophone,
     PhoneNumber |-> None]

\* the list fetch_calls returned
FetchedCalls == [i \in 1..Len(fetch_ret) |-> ServedRecord(fetch_ret[i])]

\* the response of the entry point
Respond(status, body) ==
    [entry EXCEPT !.pc = "responded", !.status = status, !.body = body]

\* a snapshot or None as an argument of calculate_comparison
AsAnalyticsArg(none, ret) ==
    IF none THEN NoAnalytics
    ELSE [kind |-> "dict", d |-> [m \in MetricNames |-> ret[m]]]

\* the entry point up to its call of fetch_calls: lambda_handler checks its
\* environment and falls back to yesterday without an event date, the two
\* routes require both dates; fetch_calls then parses the dates
handler_entry ==
    /\ entry.pc = "idle"
    /\ f_pc = "idle"
    /\ \E handler \in Handlers, dates \in DateInputs,
          exophone_filter \in ExophoneFilters :
        \E configured \in (IF handler = "lambda_handler" THEN BOOLEAN ELSE {TRUE}) :
        LET req == [handler |-> handler, pc |-> "fetch", dates |-> dates,
                    exophone_filter |-> exophone_filter, status |-> 0,
                    body |-> "none", current |-> NoAnalytics,
                    comparison |-> ZeroComparison]
        IN IF ~configured
           THEN /\ entry' = [req EXCEPT !.pc = "responded", !.status = 500,
                                 !.body = "Missing required environment variables"]
                /\ UNCHANGED <<f_pc, all_calls, f_url, f_params, fetch_ret>>
           ELSE IF handler /= "lambda_handler" /\ dates = "missing"
           THEN /\ entry' = [req EXCEPT !.pc = "responded", !.status = 400,
                                 !.body = "Start date and end date required"]
                /\ UNCHANGED <<f_pc, all_calls, f_url, f_params, fetch_ret>>
           ELSE /\ entry' = req
                /\ fetch_calls_begin(dates /= "unparseable")
    /\ UNCHANGED <<appVars, normVars, storeVars, borrowed, last, srv_total, srv_page,
                   req_log, resp_log>>

\* fetch_calls taken as returned while its loop is still running
fetch_returned_or_running == f_pc \in {"request", "done"}

\* calls = exotel.fetch_calls(...): the statement after it runs once
\* fetch_calls has returned
fetch_returned == f_pc = "done"

\* app.py lines 853-877: get_analytics once fetch_calls has returned
get_analytics ==
    /\ entry.pc = "fetch"
    /\ entry.handler = "get_analytics"
    /\ fetch_returned
    /\ IF FetchedCalls = <<>>
       THEN /\ entry' = Respond(404, "No data available for the selected date range")
            /\ UNCHANGED <<last, borrowed>>
       ELSE \E fail \in FailPoints :
            /\ process_analytics_call(FetchedCalls, entry.exophone_filter, fail)
            /\ entry' = IF last'.none
                        THEN Respond(500, "Failed to process analytics")
                        ELSE Respond(200, "success")
    /\ UNCHANGED <<appVars, normVars, storeVars, fetchVars>>

\* lambda_handler.py lines 428-470: lambda_handler once fetch_calls has
\* returned; the report is sent or not
lambda_handler ==
    /\ entry.pc = "fetch"
    /\ entry.handler = "lambda_handler"
    /\ fetch_returned
    /\ IF FetchedCalls = <<>>
       THEN /\ entry' = Respond(200, "No calls found for the specified date range")
            /\ UNCHANGED <<last, borrowed>>
       ELSE \E fail \in FailPoints, email_sent \in BOOLEAN :
            /\ process_analytics_call(FetchedCalls, entry.exophone_filter, fail)
            /\ entry' = IF last'.none
                        THEN Respond(500, "Failed to process analytics")
                        ELSE IF email_sent
                        THEN Respond(200, "Report sent successfully")
                        ELSE Respond(500, "Failed to send email report")
    /\ UNCHANGED <<appVars, normVars, storeVars, fetchVars>>

\* app.py lines 1016-1041: the current period is processed and, when it
\* gave a snapshot, fetch_calls is called for the previous period
get_analytics_comparison_current ==
    /\ entry.pc = "fetch"
    /\ entry.handler = "get_analytics_comparison"
    /\ fetch_returned
    /\ \E fail \in FailPoints :
        /\ process_analytics_call(FetchedCalls, entry.exophone_filter, fail)
        /\ IF last'.none
           THEN /\ entry' = Respond(404, "No data available for current period")
                /\ UNCHANGED <<f_pc, all_calls, f_url, f_params, fetch_ret>>
           ELSE /\ entry' = [entry EXCEPT !.pc = "fetch_previous",
                                          !.current = AsAnalyticsArg(FALSE, last'.ret)]
                /\ fetch_calls_begin(TRUE)
    /\ UNCHANGED <<appVars, normVars, storeVars, srv_total, srv_page, req_log, resp_log>>

\* app.py lines 1042-1059: the previous period is processed and compared
get_analytics_comparison_previous ==
    /\ entry.pc = "fetch_previous"
    /\ fetch_returned
    /\ \E fail \in FailPoints :
        /\ process_analytics_call(FetchedCalls, entry.exophone_filter, fail)
        /\ entry' = [entry EXCEPT
                        !.pc = "responded", !.status = 200, !.body = "success",
                        !.comparison = calculate_comparison_result(
                            entry.current, AsAnalyticsArg(last'.none, last'.ret))]
    /\ UNCHANGED <<appVars, normVars, storeVars, fetchVars>>

\* the telephony account and the stores behind the entry points: B is a
\* live tenant
EntryInit ==
    /\ np_in = <<>>
    /\ np_out = <<>>
    /\ live_rows = {KeyB}
    /\ hist_rows = {}
    /\ pool_ok = TRUE
    /\ borrowed = 0
    /\ last = [op |-> "none"]
    /\ srv_total \in 0..MaxTotal
    /\ srv_page \in ServerPageSizes
    /\ f_pc = "idle"
    /\ all_calls = <<>>
    /\ f_url = BaseUrl
    /\ f_params = TRUE
    /\ req_log = <<>>
    /\ resp_log = <<>>
    /\ fetch_ret = <<>>
    /\ EntryIdle
    /\ AppIdle

EntryNext ==
    \/ handler_entry
    \/ fetch_calls_request
    \/ get_analytics
    \/ lambda_handler
    \/ get_analytics_comparison_current
    \/ get_analytics_comparison_previous

SpecEntry == EntryInit /\ [][EntryNext]_vars

\* C19: a request whose date range is missing (the two routes) or whose
\* date cannot be parsed (the routes and lambda_handler with an event date)
\* is answered with the input-validation error, status 400, and no
\* telephony request, classification or aggregation has run for it.
C19_InvalidDatesRejected ==
    (entry.pc = "responded"
        /\ entry.body /= "Missing required environment variables"
        /\ \/ entry.dates = "unparseable"
           \/ entry.dates = "missing" /\ entry.handler /= "lambda_handler") =>
        /\ entry.status = 400
        /\ req_log = <<>>
        /\ last.op = "none"

\* fetch_calls came back empty-handed because it failed: a date it could
\* not parse, a status other than 200 or an exception
FetchFailed ==
    \/ entry.dates = "unparseable"
    \/ \E i \in 1..Len(resp_log) : resp_log[i].kind \in {"status", "raise"}

\* every request was answered and the account has no record for the dates
NoRecordsFetched == ~FetchFailed /\ req_log /= <<>> /\ fetch_ret = <<>>

\* records were fetched and the exophone filter kept none of them
NoRecordsAfterFilter ==
    /\ fetch_ret /= <<>>
    /\ last.op = "process_analytics"
    /\ last.calls /= <<>>
    /\ last.df = <<>>

\* the responses that say there is no data
NoDataBodies ==
    {"No data available for the selected date range",
     "No calls found for the specified date range"}

\* C20: at get_analytics and lambda_handler, no records fetched and no
\* records left after the exophone filter each give the 'no data' response,
\* and a failed fetch gives another response than 'no data'.
C20_NoDataDistinctFromError ==
    (entry.pc = "responded"
        /\ entry.handler \in {"get_analytics", "lambda_handler"}) =>
        /\ (NoRecordsFetched \/ NoRecordsAfterFilter)
              => entry.body \in NoDataBodies
        /\ FetchFailed => entry.body \notin NoDataBodies

\* C21: no exception escapes is_tenant or batch_lookup, whatever store call
\* fails: the operation returns its result.
C21_NoExceptionEscapes ==
    last.op \in {"is_tenant", "batch_lookup"} => ~last.raised

\* C22: with no exophone filter the snapshot of get_analytics and of
\* lambda_handler counts the records of all the pages the fetch received,
\* each once: total_calls is the sum of the page lengths, as in pages of
\* 100, 100 and 37 records giving 237.
C22_TotalIsAllPages ==
    (entry.pc = "responded"
        /\ entry.handler \in {"get_analytics", "lambda_handler"}
        /\ ~Truthy(entry.exophone_filter)
        /\ last.op = "process_analytics" /\ ~last.none) =>
        LET received == PagesBefore(Len(resp_log))
        IN /\ last.calls = [i \in 1..Len(received) |-> ServedRecord(received[i])]
           /\ last.ret.total_calls = Len(received)
           /\ \A i \in 1..Len(received) :
                 Cardinality({j \in 1..Len(last.rows) :
                                 last.rows[j].rec.Sid = received[i]}) = 1

\* two full pages and a shorter third one were fetched and all their
\* records counted
C22_Witness ==
    /\ entry.pc = "responded"
    /\ entry.handler = "get_analytics"
    /\ ~Truthy(entry.exophone_filter)
    /\ last.op = "process_analytics" /\ ~last.none
    /\ Len(resp_log) = 3
    /\ Len(resp_log[1].calls) = srv_page
    /\ Len(resp_log[2].calls) = srv_page
    /\ Len(resp_log[3].calls) \in 1..(srv_page - 1)
    /\ last.ret.total_calls = 2 * srv_page + Len(resp_log[3].calls)
    /\ last.ret.total_calls = srv_total

\* C23: within one invocation process_analytics starts only after
\* fetch_calls has returned for that date range and issues no request, a
\* snapshot is produced only after the lookup has returned, and in the
\* comparison flow every request for the previous period comes after the
\* snapshot of the current period.
C23_StagesOrdered ==
    [][/\ last' /= last =>
            /\ f_pc = "done"
            /\ req_log' = req_log
            /\ ~last'.none => last'.lookup \in {"not called", "answered", "failed"}
       /\ (req_log' /= req_log /\ entry.pc = "fetch_previous") =>
            /\ entry.current.kind = "dict"
            /\ last.op = "process_analytics" /\ ~last.none]_vars

\* the comparison flow fetched both periods, page by page, and compared them
C23_Witness ==
    /\ entry.pc = "responded"
    /\ entry.handler = "get_analytics_comparison"
    /\ entry.status = 200
    /\ entry.current.kind = "dict"
    /\ Len(req_log) >= 4
    /\ last.op = "process_analytics" /\ last.lookup = "answered"

(***************************************************************************)
(* set_schedule, the handler of POST /api/schedule, against the scheduler  *)
(* of the application.  A body is absent or a dict whose 'time' entry is   *)
(* absent or a string over digits, letters and ':'.                        *)
(***************************************************************************)
\* the 'time' strings posted: empty, well-formed, out of range, malformed
TimeInputs ==
    {<<>>,
     <<"0", "9", ":", "3", "0">>,
     <<"1", "8", ":", "0", "5">>,
     <<"2", "3", ":", "5", "9">>,
     <<"9", ":", "5">>,
     <<"2", "4", ":", "0", "0">>,
     <<"1", "0", ":", "6", "0">>,
     <<"a", "b", ":", "c", "d">>,
     <<"0", "9", "3", "0">>,
     <<"9", ":", "3", "0", ":", "0", "0">>,
     <<":", "3", "0">>}

\* request.json: None, or a dict with or without the key 'time'
ScheduleBodies ==
    {[kind |-> "None", time |-> None]}
        \cup {[kind |-> "dict", time |-> t] : t \in TimeInputs \cup {None}}

\* str.split(sep): the pieces between the occurrences of sep
RECURSIVE split(_, _)
split(s, sep) ==
    IF \A i \in 1..Len(s) : s[i] /= sep THEN <<s>>
    ELSE LET k == CHOOSE i \in 1..Len(s) :
                     s[i] = sep /\ \A j \in 1..(i - 1) : s[j] /= sep
         IN <<SubSeq(s, 1, k - 1)>> \o split(SubSeq(s, k + 1, Len(s)), sep)

DigitValue ==
    [c \in Digits |->
        CASE c = "0" -> 0 [] c = "1" -> 1 [] c = "2" -> 2 [] c = "3" -> 3
          [] c = "4" -> 4 [] c = "5" -> 5 [] c = "6" -> 6 [] c = "7" -> 7
          [] c = "8" -> 8 [] c = "9" -> 9]

\* int(s) raises ValueError on the empty string and on a non-digit
int_raises(s) == s = <<>> \/ \E i \in 1..Len(s) : s[i] \notin Digits

\* int(s) of a string of decimal digits
RECURSIVE int(_)
int(s) ==
    IF s = <<>> THEN 0
    ELSE 10 * int(SubSeq(s, 1, Len(s) - 1)) + DigitValue[s[Len(s)]]

\* line 914: `hour, minute = map(int, report_time.split(':'))` goes through
\* when there are two pieces and int accepts both
unpacks(report_time) ==
    LET parts == split(report_time, ":")
    IN Len(parts) = 2 /\ \A i \in 1..2 : ~int_raises(parts[i])

hour_of(report_time) == int(split(report_time, ":")[1])

minute_of(report_time) == int(split(report_time, ":")[2])

\* CronTrigger(hour=, minute=) refuses a value outside the range of its field
CronTrigger_raises(hour, minute) == hour \notin 0..23 \/ minute \notin 0..59

\* the jobs left by the statements of the try block that ran: only a time
\* that unpacked reaches remove_all_jobs (line 917), only one CronTrigger
\* accepts reaches add_job (lines 923-927)
jobs_after(before, report_time) ==
    IF ~unpacks(report_time) THEN before
    ELSE IF CronTrigger_raises(hour_of(report_time), minute_of(report_time))
         THEN {}
    ELSE {[id |-> "daily_report", hour |-> hour_of(report_time),
           minute |-> minute_of(report_time)]}

\* the status of the response
schedule_status(data) ==
    IF data.kind = "None" THEN 500
    ELSE IF ~Truthy(data.time) THEN 400
    ELSE IF ~unpacks(data.time) THEN 500
    ELSE IF CronTrigger_raises(hour_of(data.time), minute_of(data.time))
         THEN 500
    ELSE 200

set_schedule ==
    /\ last.op = "none"
    /\ \E data \in ScheduleBodies :
        LET status == schedule_status(data)
        IN /\ jobs' = IF data.kind = "dict" /\ Truthy(data.time)
                      THEN jobs_after(jobs, data.time) ELSE jobs
           /\ config' = IF status = 200
                        THEN [config EXCEPT !.report_time = data.time]
                        ELSE config
           /\ last' = [op |-> "set_schedule", data |-> data, status |-> status,
                       jobs_before |-> jobs, config_before |-> config]
    /\ UNCHANGED <<singletonVars, entryVars, normVars, storeVars, borrowed, fetchVars>>

ScheduleNext == set_schedule \/ Return

SpecSchedule == CompareInit /\ [][ScheduleNext]_vars

\* C28: a /api/schedule request answered with an error leaves the jobs of the
\* scheduler and config['report_time'] as they were; one answered with
\* success leaves exactly one job, 'daily_report', at the time that
\* config['report_time'] holds.
C28_ErrorKeepsSchedule ==
    last.op = "set_schedule" =>
        /\ last.status /= 200 =>
              /\ jobs = last.jobs_before
              /\ config = last.config_before
        /\ last.status = 200 =>
              /\ unpacks(config.report_time)
              /\ jobs = {[id |-> "daily_report",
                          hour |-> hour_of(config.report_time),
                          minute |-> minute_of(config.report_time)]}

(***************************************************************************)
(* get_tenant_lookup run by the threads of the application.  The function  *)
(* holds no lock, so the threads interleave between its statements: the    *)
(* test of the global, the construction of a TenantLookup, the assignment  *)
(* of the global and the read of the global for the return.                *)
(***************************************************************************)
\* process_analytics, in a request thread or in the scheduled report, comes
\* to its call of get_tenant_lookup
get_tenant_lookup_call ==
    /\ \E t \in Threads :
        /\ thread[t].pc \in {"idle", "done"}
        /\ thread' = [thread EXCEPT ![t] = [pc |-> "test", made |-> 0, ret |-> 0]]
    /\ UNCHANGED <<_tenant_lookup, instances, schedVars, entryVars, normVars,
                   storeVars, borrowed, last, fetchVars>>

\* line 275: `if _tenant_lookup is None`
get_tenant_lookup_test ==
    /\ \E t \in Threads :
        /\ thread[t].pc = "test"
        /\ thread' = [thread EXCEPT ![t].pc = IF _tenant_lookup = 0
                                              THEN "construct" ELSE "return"]
    /\ UNCHANGED <<_tenant_lookup, instances, schedVars, entryVars, normVars,
                   storeVars, borrowed, last, fetchVars>>

\* line 276, right-hand side: TenantLookup() builds an object with a pool
get_tenant_lookup_construct ==
    /\ \E t \in Threads :
        /\ thread[t].pc = "construct"
        /\ instances' = instances + 1
        /\ thread' = [thread EXCEPT ![t].pc = "assign", ![t].made = instances + 1]
    /\ UNCHANGED <<_tenant_lookup, schedVars, entryVars, normVars, storeVars,
                   borrowed, last, fetchVars>>

\* line 276, the store into the global
get_tenant_lookup_assign ==
    /\ \E t \in Threads :
        /\ thread[t].pc = "assign"
        /\ _tenant_lookup' = thread[t].made
        /\ thread' = [thread EXCEPT ![t].pc = "return"]
    /\ UNCHANGED <<instances, schedVars, entryVars, normVars, storeVars,
                   borrowed, last, fetchVars>>

\* line 277: `return _tenant_lookup`
get_tenant_lookup_return ==
    /\ \E t \in Threads :
        /\ thread[t].pc = "return"
        /\ thread' = [thread EXCEPT ![t].pc = "done", ![t].ret = _tenant_lookup]
    /\ UNCHANGED <<_tenant_lookup, instances, schedVars, entryVars, normVars,
                   storeVars, borrowed, last, fetchVars>>

SingletonNext ==
    \/ get_tenant_lookup_call
    \/ get_tenant_lookup_test
    \/ get_tenant_lookup_construct
    \/ get_tenant_lookup_assign
    \/ get_tenant_lookup_return

SpecSingleton == CompareInit /\ [][SingletonNext]_vars

\* C27: get_tenant_lookup creates at most one TenantLookup, also when a
\* request thread and the scheduler thread call it at the same time.
C27_AtMostOneInstance == instances <= 1

====
